---- MODULE Spec2Model ----
(***************************************************************************)
(* Model of the authenticated request facade of dcn-sdk                    *)
(* (src/python/dcn/client.py, class DcnSDK): the token plumbing, the       *)
(* candidate resolver, the request dispatcher with its 401 refresh-retry,  *)
(* refresh() and login_with_account().                                     *)
(*                                                                         *)
(* The operation backend (the generated client package), the signer and    *)
(* the remote server are the environment: every backend invocation draws   *)
(* its response, and every import draws the package layout, from small     *)
(* sets.                                                                   *)
(***************************************************************************)
EXTENDS Integers, Sequences, FiniteSets, TLC

VARIABLES
    access,        \* self._access
    refresh,       \* self._refresh
    auto_refresh,  \* self._auto_refresh
    client,        \* self._client: the backend handle
    stack,         \* the Python call stack of the running public operation
    log,           \* history: invocations since the outermost _call in progress began
    nrefresh,      \* history: refresh() calls entered since that call began
    calls,         \* history: per endpoint, 1 once the running operation invoked it
    pkg,           \* what the imports of the running operation have found
    op,            \* history: the public operation last started
    pre,           \* history: credential pair and handle when it started
    cpre,          \* history: the same when the outermost _call in progress began
    result,        \* what the last public operation returned or raised
    nonce_resp,    \* login_with_account's local: what get_nonce returned to it
    revoked,       \* history: the public operation before was _set_tokens(None, "")
    rcands,        \* resolver check: the candidate list given
    renv,          \* resolver check: the package layout
    rres,          \* resolver check: outcome of _resolve_func
    ranges_in,     \* encoder check: the ranges given
    encoded,       \* encoder check: what _encode_ranges returned
    base_arg,      \* construction: the base_url argument of __init__
    env_base,      \* construction: the DCN_API_BASE environment variable
    base_url,      \* self._client.base_url
    transport,     \* construction: the transport argument of __init__
    serialized,    \* threads: the callers hold a mutex around every operation
    mutex,         \* threads: the thread holding the callers' mutex, or None
    tpc,           \* threads: each thread's position in _set_tokens
    targ,          \* threads: each thread's arguments of _set_tokens
    seen,          \* threads: what each thread last read of the client
    held           \* threads: history, the token the handle carried at the
                   \* moment each thread last read access_token

vars == <<access, refresh, auto_refresh, client, stack, log, nrefresh, calls, pkg,
          op, pre, cpre, result, nonce_resp, revoked, rcands, renv,
          rres,
          ranges_in, encoded, base_arg, env_base, base_url, transport,
          serialized, mutex, tpc, targ, seen, held>>

clientVars == <<access, refresh, auto_refresh, client, stack, log, nrefresh, calls,
                pkg, op, pre, cpre, result, nonce_resp, revoked>>

resolverVars == <<rcands, renv, rres>>

encoderVars == <<ranges_in, encoded>>

ctorVars == <<base_arg, env_base, base_url, transport>>

threadVars == <<serialized, mutex, tpc, targ, seen, held>>

\* What the public operations of the client leave alone: _set_tokens builds
\* the new handle with the base URL of the old one (client.py:87)
checkVars == <<resolverVars, encoderVars, ctorVars, threadVars>>

-----------------------------------------------------------------------------
(* Python values *)

None == "None"

Truthy(v) == v # None /\ v # ""

\* Bounds of the model
MaxDepth == 2   \* refresh() calls nested in one another that the model follows
MaxCands == 2   \* longest candidate list given to the resolver check
MaxRanges == 2  \* longest list of pairs given to the encoder check
MaxSets == 2    \* handles rebuilt before the threads start no further _set_tokens

\* Status codes the dispatcher tests
Unauthorized == 401
SuccessLow == 200
SuccessEnd == 300

-----------------------------------------------------------------------------
(* Exceptions.  One record shape for all: exc is the Python class (with a  *)
(* tag for the two RuntimeErrors the client words differently), status and *)
(* body the HTTP data, cands and cause the data of the resolver's error.   *)

NoExc == [exc |-> "None", at |-> <<>>]

Err(exc, status, body, cands, cause) ==
    [exc |-> exc, status |-> status, body |-> body, cands |-> cands, cause |-> cause]

NoErr == Err("None", 0, "", <<>>, NoExc)

SimpleErr(exc) == Err(exc, 0, "", <<>>, NoExc)

-----------------------------------------------------------------------------
(* The candidate resolver.  A dotted path is a sequence of its segments.   *)

\* dotted.rpartition("."), client.py:109
RPartition(dotted) ==
    [mod  |-> SubSeq(dotted, 1, Len(dotted) - 1),
     func |-> dotted[Len(dotted)]]

\* The calling conventions an object can expose.  "neither": the attribute
\* exists but has neither sync_detailed nor sync.
Conventions == {"detailed", "plain", "both", "neither"}

\* One loop body of _resolve_func: import_module(mod_name) then
\* getattr(mod, func).  env.mods is the set of importable modules, env.attr
\* maps a dotted path to what getattr finds there ("absent": AttributeError).
Lookup(dotted, env) ==
    LET p == RPartition(dotted) IN
    IF p.mod = <<>>
    THEN [ok |-> FALSE, conv |-> "", exc |-> [exc |-> "ValueError", at |-> dotted]]
    ELSE IF p.mod \notin env.mods
    THEN [ok |-> FALSE, conv |-> "",
          exc |-> [exc |-> "ModuleNotFoundError", at |-> dotted]]
    ELSE IF env.attr[dotted] = "absent"
    THEN [ok |-> FALSE, conv |-> "", exc |-> [exc |-> "AttributeError", at |-> dotted]]
    ELSE [ok |-> TRUE, conv |-> env.attr[dotted], exc |-> NoExc]

\* Mutant: the first lookup failure aborts the resolution
ResolveLoopAbort(candidates, env, i, last_exc) ==
    IF i > Len(candidates)
    THEN [ok |-> FALSE, fn |-> <<>>, conv |-> "",
          err |-> Err("ImportError", 0, "", candidates, last_exc)]
    ELSE LET r == Lookup(candidates[i], env) IN
         IF r.ok
         THEN [ok |-> TRUE, fn |-> candidates[i], conv |-> r.conv, err |-> NoErr]
         ELSE [ok |-> FALSE, fn |-> <<>>, conv |-> "",
               err |-> Err("ImportError", 0, "", candidates, r.exc)]

\* Mutant: the first lookup failure is kept as the cause, not the last
RECURSIVE ResolveLoopFirstExc(_, _, _, _)
ResolveLoopFirstExc(candidates, env, i, last_exc) ==
    IF i > Len(candidates)
    THEN [ok |-> FALSE, fn |-> <<>>, conv |-> "",
          err |-> Err("ImportError", 0, "", candidates, last_exc)]
    ELSE LET r == Lookup(candidates[i], env) IN
         IF r.ok
         THEN [ok |-> TRUE, fn |-> candidates[i], conv |-> r.conv, err |-> NoErr]
         ELSE ResolveLoopFirstExc(candidates, env, i + 1,
                                  IF last_exc = NoExc THEN r.exc ELSE last_exc)

RECURSIVE ResolveLoop(_, _, _, _)
ResolveLoop(candidates, env, i, last_exc) ==
    IF i > Len(candidates)
    THEN [ok |-> FALSE, fn |-> <<>>, conv |-> "",
          err |-> Err("ImportError", 0, "", candidates, last_exc)]
    ELSE LET r == Lookup(candidates[i], env) IN
         IF r.ok
         THEN [ok |-> TRUE, fn |-> candidates[i], conv |-> r.conv, err |-> NoErr]
         ELSE ResolveLoop(candidates, env, i + 1, r.exc)

\* DcnSDK._resolve_func
ResolveFunc(candidates, env) == ResolveLoop(candidates, env, 1, NoExc)

\* The layouts of the package over a set of dotted paths, each path bound
\* to nothing or to an object exposing one of convs
EnvsOver(paths, convs) ==
    LET mods == {RPartition(d).mod : d \in paths} \ {<<>>} IN
    {[mods |-> ms, attr |-> at] :
        ms \in SUBSET mods, at \in [paths -> convs \cup {"absent"}]}

-----------------------------------------------------------------------------
(* The resolver on its own: inputs drawn at Init, one action applying it.  *)

ResolverPaths == {<<"get_x">>, <<"api", "tag", "get_x">>, <<"api", "default", "get_x">>}

CandLists == UNION {[1..n -> ResolverPaths] : n \in 0..MaxCands}

NoEnv == [mods |-> {}, attr |-> <<>>]

Pending == [ok |-> FALSE, fn |-> <<>>, conv |-> "pending", err |-> NoErr]

RInit ==
    /\ rcands \in CandLists
    /\ renv \in EnvsOver(ResolverPaths, Conventions)
    /\ rres = Pending

Resolve ==
    /\ rres = Pending
    /\ rres' = ResolveFunc(rcands, renv)
    /\ UNCHANGED <<rcands, renv>>

-----------------------------------------------------------------------------
(* The base URL.  A string is the sequence of its pieces, each the slash   *)
(* character or a run of other characters; an optional string is given or  *)
(* not (None, or a variable the environment does not hold).                *)

Opt(given, val) == [given |-> given, val |-> val]

NotGiven == Opt(FALSE, <<>>)

\* DEFAULT_BASE (client.py:23)
DEFAULT_BASE == <<"https://api.decentralised.art">>

\* s.rstrip("/")
RECURSIVE RStrip(_)
RStrip(str) ==
    IF str # <<>> /\ str[Len(str)] = "/"
    THEN RStrip(SubSeq(str, 1, Len(str) - 1))
    ELSE str

\* x or y, for an optional string x
OrElse(x, y) == IF x.given /\ x.val # <<>> THEN x.val ELSE y

\* Mutant: the environment variable wins over the argument
BaseOfEnvFirst(arg, env) == RStrip(OrElse(env, OrElse(arg, DEFAULT_BASE)))

\* (base_url or os.getenv("DCN_API_BASE") or DEFAULT_BASE).rstrip("/")
BaseOf(arg, env) == RStrip(OrElse(arg, OrElse(env, DEFAULT_BASE)))

\* The strings drawn for the argument and for the environment variable
Urls ==
    {<<>>, <<"/">>, <<"https://a.example">>, <<"https://a.example", "/">>,
     <<"https://b.example", "/", "/">>, <<"https://b.example", "/", "v1", "/">>}

OptUrls == {NotGiven} \cup {Opt(TRUE, u) : u \in Urls}

Unbuilt == <<"<unbuilt>">>

-----------------------------------------------------------------------------
(* The range encoder.  A string is built by concatenation; an integer is   *)
(* rendered digit by digit as str() does.                                   *)

Digits == <<"0", "1", "2", "3", "4", "5", "6", "7", "8", "9">>

\* str(n) for n >= 0
RECURSIVE NatStr(_)
NatStr(n) ==
    IF n < 10 THEN Digits[n + 1]
    ELSE NatStr(n \div 10) \o Digits[(n % 10) + 1]

\* f"{a}" for an int
IntStr(a) == IF a < 0 THEN "-" \o NatStr(0 - a) ELSE NatStr(a)

\* "".join(f"({a};{b})" for a, b in ranges)
RECURSIVE JoinPairs(_)
JoinPairs(ranges) ==
    IF ranges = <<>> THEN ""
    ELSE "(" \o IntStr(Head(ranges)[1]) \o ";" \o IntStr(Head(ranges)[2]) \o ")"
         \o JoinPairs(Tail(ranges))

\* Mutant: the pairs are joined with commas inside square brackets
RECURSIVE CommaJoined(_)
CommaJoined(ranges) ==
    IF ranges = <<>> THEN ""
    ELSE "(" \o IntStr(Head(ranges)[1]) \o ";" \o IntStr(Head(ranges)[2]) \o ")"
         \o (IF Tail(ranges) = <<>> THEN "" ELSE ",") \o CommaJoined(Tail(ranges))

EncodeRangesCommaJoined(ranges) == "[" \o CommaJoined(ranges) \o "]"

\* Mutant: the joined pairs are wrapped in square brackets
EncodeRangesBracketed(ranges) == "[" \o JoinPairs(ranges) \o "]"

\* DcnSDK._encode_ranges
EncodeRanges(ranges) == JoinPairs(ranges)

\* The encoder on its own: inputs drawn at Init, one action applying it.
RangeInts == {0 - 12, 0 - 1, 0, 1, 2, 3, 4, 10}

RangeLists == UNION {[1..n -> RangeInts \X RangeInts] : n \in 0..MaxRanges}

NotEncoded == "<pending>"

EInit ==
    /\ ranges_in \in RangeLists
    /\ encoded = NotEncoded

Encode ==
    /\ encoded = NotEncoded
    /\ encoded' = EncodeRanges(ranges_in)
    /\ UNCHANGED ranges_in

-----------------------------------------------------------------------------
(* Payloads, responses, arguments.                                         *)

\* A parsed payload.  shape "none" is Python None, "obj" a generated model
\* (attribute access), "dict" a mapping, "str" a plain value.
Payload(shape, val, at, rt, nonce) ==
    [shape |-> shape, val |-> val, access_token |-> at, refresh_token |-> rt,
     nonce |-> nonce]

NoPayload == Payload("none", None, None, None, None)

\* A local that has not been assigned
Unassigned == Payload("unassigned", None, None, None, None)

\* getattr(resp, field, None) or (resp.get(field) if isinstance(resp, dict) else None)
\* client.py:171, 183, 184, 198
Extract(resp, field) ==
    LET attr == IF resp.shape = "obj" THEN resp[field] ELSE None IN
    IF Truthy(attr) THEN attr
    ELSE IF resp.shape = "dict" THEN resp[field]
    ELSE None

\* The headers keyword: not passed, or the dict {"X-Refresh-Token": ...}
NoHeaders == [passed |-> FALSE, x_refresh_token |-> None]

RefreshHeaders(token) == [passed |-> TRUE, x_refresh_token |-> token]

\* The json_body keyword: not passed, the empty dict, the dict of the login
\* message, or a request model
Body(shape, address, message, signature, req) ==
    [shape |-> shape, address |-> address, message |-> message,
     signature |-> signature, req |-> req]

NoBody == Body("absent", None, None, None, None)

EmptyBody == Body("dict", None, None, None, None)

LoginBody(address, message, signature) ==
    Body("dict", address, message, signature, None)

RequestBody(req) == Body("model", None, None, None, req)

\* The keyword arguments _call passes on; None where one is not passed
NoArgs ==
    [headers |-> NoHeaders, address |-> None, feature_name |-> None,
     num_samples |-> None, pairs |-> None, limit |-> None, page |-> None,
     feature_version |-> None, transformation_name |-> None,
     transformation_version |-> None, json_body |-> NoBody]

\* _call(fn, address=address)
NonceArgs(address) == [NoArgs EXCEPT !.address = address]

\* _call(fn, json_body={"address": ..., "message": ..., "signature": ...})
AuthArgs(address, message, signature) ==
    [NoArgs EXCEPT !.json_body = LoginBody(address, message, signature)]

\* _call(fn, headers={"X-Refresh-Token": self._refresh}, json_body={})
RefreshArgs(token) ==
    [NoArgs EXCEPT !.headers = RefreshHeaders(token), !.json_body = EmptyBody]

ExecArgs(feature_name, num_samples, pairs) ==
    [NoArgs EXCEPT !.feature_name = feature_name, !.num_samples = num_samples,
                   !.pairs = pairs]

\* _call(fn, address=address, limit=limit, page=page)
AccountArgs(address, limit, page) ==
    [NoArgs EXCEPT !.address = address, !.limit = limit, !.page = page]

\* _call(fn, feature_name=name) and
\* _call(fn, feature_name=name, feature_version=version)
FeatureArgs(name, version) ==
    [NoArgs EXCEPT !.feature_name = name, !.feature_version = version]

\* _call(fn, transformation_name=name) and
\* _call(fn, transformation_name=name, transformation_version=version)
TransformationArgs(name, version) ==
    [NoArgs EXCEPT !.transformation_name = name,
                   !.transformation_version = version]

\* _call(fn, json_body=req)
BodyArgs(req) == [NoArgs EXCEPT !.json_body = RequestBody(req)]

\* The optional ranges argument of execute: not given (None) or a list
Ranges(given, val) == [given |-> given, val |-> val]

NoRanges == Ranges(FALSE, <<>>)

\* Mutant: any list given, the empty one included, selects the with-pairs
\* operation
RangesGiven(ranges) == ranges.given

\* if ranges: (client.py:254)
RangesTruthy(ranges) == ranges.given /\ ranges.val # <<>>

\* account.sign_message(encode_defunct(text=...)).signature.hex(): what the
\* identity at address signs over a text
Sign(address, text) == "sig<" \o address \o "|" \o text \o ">"

\* Mutant: the nonce itself is signed and sent, without the template
SignLoginNonceBare(address, nonce) ==
    [message |-> nonce, signature |-> Sign(address, nonce)]

\* crypto.sign_login_nonce: the message template and the signer's output
SignLoginNonce(address, nonce) ==
    LET message_text == "Login nonce: " \o nonce IN
    [message |-> message_text, signature |-> Sign(address, message_text)]

\* Candidate lists of the public operations
VersionCands ==
    << <<"api", "version", "get_version">>, <<"api", "default", "get_version">> >>

NonceCands ==
    << <<"api", "auth", "get_nonce">>, <<"api", "default", "get_nonce">> >>

AuthCands ==
    << <<"api", "auth", "post_auth">>, <<"api", "default", "post_auth">> >>

RefreshCands ==
    << <<"api", "auth", "post_refresh">>, <<"api", "default", "post_refresh">> >>

WithPairsCands ==
    << <<"api", "execute", "get_with_pairs">>, <<"api", "default", "get_with_pairs">> >>

NoPairsCands ==
    << <<"api", "execute", "get_no_pairs">>, <<"api", "default", "get_no_pairs">> >>

AccountCands ==
    << <<"api", "account", "get_account_info">>,
       <<"api", "default", "get_account_info">> >>

FeatureByNameCands ==
    << <<"api", "feature", "get_by_name">>, <<"api", "default", "get_by_name">> >>

FeatureByNameVersionCands ==
    << <<"api", "feature", "get_by_name_version">>,
       <<"api", "default", "get_by_name_version">> >>

FeaturePostCands ==
    << <<"api", "feature", "post_feature">>, <<"api", "default", "post_feature">> >>

TransformationByNameCands ==
    << <<"api", "transformation", "get_by_name">>,
       <<"api", "default", "get_by_name">> >>

TransformationByNameVersionCands ==
    << <<"api", "transformation", "get_by_name_version">>,
       <<"api", "default", "get_by_name_version">> >>

TransformationPostCands ==
    << <<"api", "transformation", "post_transformation">>,
       <<"api", "default", "post_transformation">> >>

Range(seq) == {seq[i] : i \in 1..Len(seq)}

OpOf(fn) == fn[Len(fn)]

OpNames == {"get_version", "get_nonce", "post_auth", "post_refresh",
            "get_with_pairs", "get_no_pairs", "get_account_info", "get_by_name",
            "get_by_name_version", "post_feature", "post_transformation"}

\* What the server may answer
Addresses == {"0xabc"}

PayloadsOf(opname) ==
    CASE opname = "get_version" ->
            {NoPayload, Payload("str", "v1", None, None, None)}
      [] opname = "get_nonce" ->
            {NoPayload,
             Payload("dict", None, None, None, "n1"),
             Payload("obj", None, None, None, "n2"),
             Payload("dict", None, None, None, ""),
             Payload("obj", None, None, None, None)}
      [] opname = "post_auth" ->
            {NoPayload,
             Payload("dict", None, "A", "S", None),
             Payload("obj", None, "B", None, None),
             Payload("dict", None, None, "S", None),
             Payload("dict", None, "B", "", None)}
      [] opname = "post_refresh" ->
            {NoPayload,
             Payload("dict", None, "B", None, None),
             Payload("obj", None, "A", "S", None)}
      [] opname \in {"get_with_pairs", "get_no_pairs"} ->
            {Payload("str", "samples", None, None, None)}
      [] opname \in {"get_account_info", "get_by_name", "get_by_name_version",
                     "post_feature", "post_transformation"} ->
            {Payload("str", "payload", None, None, None)}

Response(status, parsed, content) ==
    [status |-> status, parsed |-> parsed, content |-> content]

\* The answers at the two ends of the success range, drawn for the version
\* endpoint: the last success status and the first status after it
EdgeResponses(fn) ==
    IF OpOf(fn) = "get_version"
    THEN {Response(SuccessEnd - 1, NoPayload, ""),
          Response(SuccessEnd, NoPayload, "multiple choices")}
    ELSE {}

Responses(fn) ==
    {Response(SuccessLow, p, "") : p \in PayloadsOf(OpOf(fn))}
    \cup {Response(Unauthorized, NoPayload, "unauthorized"),
          Response(500, NoPayload, "server error")}
    \cup EdgeResponses(fn)

\* Mutant: only 200 itself counts as success
IsSuccessOnlyOk(status) == status = SuccessLow

\* 200 <= resp.status_code < 300 (client.py:129)
IsSuccess(status) == SuccessLow <= status /\ status < SuccessEnd

-----------------------------------------------------------------------------
(* The client state as one value, so that the methods compose.             *)

Cur ==
    [access |-> access, refresh |-> refresh, client |-> client, stack |-> stack,
     log |-> log, nrefresh |-> nrefresh, calls |-> calls, pkg |-> pkg,
     cpre |-> cpre, result |-> result, nonce_resp |-> nonce_resp]

\* _GenClient(base_url=..., token=..., ...): a fresh handle object.  id is
\* the number of handles built since the running operation started, which
\* tells one handle object from another.
\* Its transport is the one its own httpx client gets by default, since
\* _GenClient takes no transport.
GenClient(token, id) == [token |-> token, id |-> id, transport |-> None]

\* The best-effort injection of __init__ (client.py:61-68) into the handle
\* just built: the handle's httpx client is replaced by one on the given
\* transport when the handle already holds an httpx client, and nothing is
\* done when it holds none yet or the attempt raises.
Injected(handle, given) ==
    IF given = None THEN {handle}
    ELSE {handle, [handle EXCEPT !.transport = given]}

\* Mutant: an empty refresh token is treated as none given
SetTokensTruthyRefresh(m, a, r) ==
    LET m1 == IF Truthy(a)
              THEN [m EXCEPT !.access = a,
                             !.client = GenClient(a, m.client.id + 1)]
              ELSE m
    IN IF Truthy(r) THEN [m1 EXCEPT !.refresh = r] ELSE m1

\* Mutant: the token is stored but the handle is not rebuilt
SetTokensStaleHandle(m, a, r) ==
    LET m1 == IF Truthy(a) THEN [m EXCEPT !.access = a] ELSE m
    IN IF r # None THEN [m1 EXCEPT !.refresh = r] ELSE m1

\* Mutant: the refresh token is stored even when none is given
SetTokensClobberRefresh(m, a, r) ==
    LET m1 == IF Truthy(a)
              THEN [m EXCEPT !.access = a,
                             !.client = GenClient(a, m.client.id + 1)]
              ELSE m
    IN [m1 EXCEPT !.refresh = r]

\* self._access = access
StoreAccess(m, a) == [m EXCEPT !.access = a]

\* A handle whose token is None whatever the client stores
RebuiltAnonymous(m) == [m EXCEPT !.client = GenClient(None, m.client.id + 1)]

\* self._client = _GenClient(..., token=self._access, ...): the token of the
\* new handle is read from the client when the handle is built.
Rebuilt(m) == [m EXCEPT !.client = GenClient(m.access, m.client.id + 1)]

\* self._refresh = refresh
StoreRefresh(m, r) == [m EXCEPT !.refresh = r]

\* DcnSDK._set_tokens
SetTokens(m, a, r) ==
    LET m1 == IF Truthy(a) THEN Rebuilt(StoreAccess(m, a)) ELSE m
    IN IF r # None THEN StoreRefresh(m1, r) ELSE m1

\* The credential pair and the handle
Creds(m) == [access |-> m.access, refresh |-> m.refresh, client |-> m.client]

Frame(kind, pc, fn, conv, args) ==
    [kind |-> kind, pc |-> pc, fn |-> fn, conv |-> conv, args |-> args]

Top(s) == s[Len(s)]
Pop(s) == SubSeq(s, 1, Len(s) - 1)

Returned(val) == [kind |-> "return", val |-> val, err |-> NoErr]
Raised(err) == [kind |-> "raise", val |-> NoPayload, err |-> err]
Running == [kind |-> "running", val |-> NoPayload, err |-> NoErr]

\* An exception nobody catches: no frame of the client catches what a callee
\* raises, so the whole public operation ends with it.
Raise(m, err) == [m EXCEPT !.stack = <<>>, !.result = Raised(err)]

InCall(s) == \E i \in 1..Len(s) : s[i].kind = "_call"

\* Entry of DcnSDK._call: the convention is chosen by hasattr(op_func,
\* "sync_detailed"); an object with neither attribute fails at op_func.sync.
\* The histories log, nrefresh and cpre restart with an outermost call.
EnterCall(m, fn, conv, args) ==
    LET m1 == IF InCall(m.stack) THEN m
              ELSE [m EXCEPT !.log = <<>>, !.nrefresh = 0, !.cpre = Creds(m)]
    IN
    IF conv = "neither"
    THEN Raise(m1, SimpleErr("AttributeError"))
    ELSE [m1 EXCEPT !.stack = Append(@, Frame("_call", "invoke1", fn, conv, args))]

\* What self._resolve_func(candidates) gives in the running operation: the
\* import system answers the same for the same names throughout it, so a
\* list resolved before resolves the same way again.  A function exposing
\* both conventions takes the sync_detailed branch of _call (line 124) exactly
\* as one exposing only that, so the layouts drawn here leave it to the
\* resolver specification, which draws all four.
Resolutions(m, candidates) ==
    IF m.pkg[OpOf(candidates[1])] # Pending
    THEN {m.pkg[OpOf(candidates[1])]}
    ELSE {ResolveFunc(candidates, env) :
            env \in EnvsOver(Range(candidates), {"detailed", "plain", "neither"})}

\* fn = self._resolve_func([...]); self._call(fn, ...)
ResolveAndCall(m, candidates, args) ==
    {LET m1 == [m EXCEPT !.pkg[OpOf(candidates[1])] = r] IN
        IF r.ok THEN EnterCall(m1, r.fn, r.conv, args) ELSE Raise(m1, r.err) :
     r \in Resolutions(m, candidates)}

RefreshDepth(s) == Cardinality({i \in 1..Len(s) : s[i].kind = "refresh"})

\* Mutant: refresh() is refused only when both tokens are missing
MissingBothTokens(m) == ~Truthy(m.access) /\ ~Truthy(m.refresh)

\* The precondition test of DcnSDK.refresh (client.py:189)
MissingTokens(m) == ~Truthy(m.access) \/ ~Truthy(m.refresh)

\* DcnSDK.refresh up to its backend invocation (client.py:189-197)
Refresh(m) ==
    LET m1 == [m EXCEPT !.nrefresh = @ + 1] IN
    IF MissingTokens(m1)
    THEN {Raise(m1, SimpleErr("RuntimeError:MissingTokens"))}
    ELSE ResolveAndCall(
           [m1 EXCEPT !.stack = Append(@, Frame("refresh", "wait", <<>>, "", NoArgs))],
           RefreshCands, RefreshArgs(m1.refresh))

\* Mutant: refresh() returns without committing the new access token
AfterRefreshNoCommit(m, resp) ==
    LET s == Pop(m.stack)
    IN IF s = <<>>
       THEN [m EXCEPT !.stack = s, !.result = Returned(resp)]
       ELSE [m EXCEPT !.stack = [s EXCEPT ![Len(s)].pc = "invoke2"]]

\* refresh() once its backend call has returned resp (client.py:198-200),
\* then back in whoever called refresh(): the public caller, or _call at
\* client.py:127/138, which goes on to its second invocation.
AfterRefresh(m, resp) ==
    LET m1 == SetTokens(m, Extract(resp, "access_token"), None)
        s  == Pop(m1.stack)
    IN IF s = <<>>
       THEN [m1 EXCEPT !.stack = s, !.result = Returned(resp)]
       ELSE [m1 EXCEPT !.stack = [s EXCEPT ![Len(s)].pc = "invoke2"]]

\* Mutant: only a nonce that is None is refused
LoginAfterNonceNoneOnly(m, resp) ==
    LET f     == Top(m.stack)
        nonce == Extract(resp, "nonce")
        m0    == [m EXCEPT !.nonce_resp = resp]
    IN IF nonce = None
       THEN {Raise(m0, SimpleErr("RuntimeError:MissingNonce"))}
       ELSE LET sg == SignLoginNonce(f.args.address, nonce)
                m1 == [m0 EXCEPT !.stack[Len(m.stack)].pc = "auth"]
            IN ResolveAndCall(m1, AuthCands,
                              AuthArgs(f.args.address, sg.message, sg.signature))

\* Mutant: the login drops the stored tokens before it submits
LoginAfterNonceDropsTokens(m, resp) ==
    LET f     == Top(m.stack)
        nonce == Extract(resp, "nonce")
        m0    == [m EXCEPT !.nonce_resp = resp]
    IN IF ~Truthy(nonce)
       THEN {Raise(m0, SimpleErr("RuntimeError:MissingNonce"))}
       ELSE LET sg == SignLoginNonce(f.args.address, nonce)
                m1 == [m0 EXCEPT !.stack[Len(m.stack)].pc = "auth",
                                 !.access = None, !.refresh = None,
                                 !.client = GenClient(None, m.client.id + 1)]
            IN ResolveAndCall(m1, AuthCands,
                              AuthArgs(f.args.address, sg.message, sg.signature))

\* login_with_account once get_nonce has returned (client.py:171-181)
LoginAfterNonce(m, resp) ==
    LET f     == Top(m.stack)
        nonce == Extract(resp, "nonce")
        m0    == [m EXCEPT !.nonce_resp = resp]
    IN IF ~Truthy(nonce)
       THEN {Raise(m0, SimpleErr("RuntimeError:MissingNonce"))}
       ELSE LET sg == SignLoginNonce(f.args.address, nonce)
                m1 == [m0 EXCEPT !.stack[Len(m.stack)].pc = "auth"]
            IN ResolveAndCall(m1, AuthCands,
                              AuthArgs(f.args.address, sg.message, sg.signature))

\* login_with_account once post_auth has returned (client.py:183-186)
LoginAfterAuth(m, resp) ==
    LET m1 == SetTokens(m, Extract(resp, "access_token"),
                        Extract(resp, "refresh_token"))
    IN [m1 EXCEPT !.stack = Pop(@), !.result = Returned(resp)]

\* _call returns val to the frame below it
Return(m, val) ==
    LET m1 == [m EXCEPT !.stack = Pop(@)] IN
    IF m1.stack = <<>>
    THEN {[m1 EXCEPT !.result = Returned(val)]}
    ELSE LET f == Top(m1.stack) IN
         IF f.kind = "refresh" THEN {AfterRefresh(m1, val)}
         ELSE IF f.pc = "nonce" THEN LoginAfterNonce(m1, val)
         ELSE {LoginAfterAuth(m1, val)}

\* Mutant: a 401 answer to the retry is refreshed and retried as well
WantsRetryEveryTime(m, f, resp) ==
    /\ auto_refresh
    /\ resp.status = Unauthorized
    /\ Truthy(m.refresh)

\* Mutant: the retry is keyed to 403 instead of 401
WantsRetryForbidden(m, f, resp) ==
    /\ f.pc = "invoke1"
    /\ auto_refresh
    /\ resp.status = 403
    /\ Truthy(m.refresh)

\* Mutant: every first 401 is retried, whatever the settings and tokens
WantsRetryUnguarded(m, f, resp) ==
    /\ f.pc = "invoke1"
    /\ resp.status = Unauthorized

\* The 401 test of DcnSDK._call (client.py:126 and 137), made after the
\* first invocation only
WantsRetry(m, f, resp) ==
    /\ f.pc = "invoke1"
    /\ auto_refresh
    /\ resp.status = Unauthorized
    /\ Truthy(m.refresh)

\* Mutant: the retry passes the handle read before the first invocation
InvocationFirstHandle(m, f, resp) ==
    [fn |-> f.fn, args |-> f.args, by |-> Len(m.stack), pc |-> f.pc,
     handle |-> IF f.pc = "invoke2" THEN m.log[1].handle ELSE m.client,
     resp |-> resp]

\* The record of one backend invocation: by is the stack position of the
\* _call frame that made it, handle the self._client it passed.
Invocation(m, f, resp) ==
    [fn |-> f.fn, args |-> f.args, by |-> Len(m.stack), pc |-> f.pc,
     handle |-> m.client, resp |-> resp]

\* One backend invocation of DcnSDK._call and what follows it up to the
\* next backend invocation: the frame on top is the _call frame, resp is
\* what the backend answers (for the plain convention a non-success status
\* is the httpx.HTTPStatusError that sync raises).
Call(m, resp) ==
    LET f  == Top(m.stack)
        m1 == [m EXCEPT !.log = Append(@, Invocation(m, f, resp)),
                        !.calls[OpOf(f.fn)] = 1]
        waiting == [m1 EXCEPT !.stack[Len(m.stack)].pc = "refreshing"]
    IN IF f.conv \in {"detailed", "both"}
       THEN IF WantsRetry(m1, f, resp) THEN Refresh(waiting)
            ELSE IF IsSuccess(resp.status) THEN Return(m1, resp.parsed)
            ELSE {Raise(m1, Err("RuntimeError:HTTP", resp.status, resp.content,
                                <<>>, NoExc))}
       ELSE IF IsSuccess(resp.status) THEN Return(m1, resp.parsed)
            ELSE IF WantsRetry(m1, f, resp) THEN Refresh(waiting)
            ELSE {Raise(m1, Err("HTTPStatusError", resp.status, resp.content,
                                <<>>, NoExc))}

-----------------------------------------------------------------------------
(* Actions: the public operations, and the backend answering.              *)

\* No public operation is running, and the caller has taken the last result
Idle == stack = <<>> /\ result.kind = "none"

NoResult == [kind |-> "none", val |-> NoPayload, err |-> NoErr]

OpDesc(kind, a, r, address) ==
    [kind |-> kind, a |-> a, r |-> r, address |-> address,
     feature_name |-> None, num_samples |-> None, ranges |-> NoRanges,
     name |-> None, version |-> None, limit |-> None, page |-> None,
     req |-> None]

\* The arguments the account, feature and transformation operations are
\* called with: limit and page at their defaults (passed through untouched,
\* so named by their text), a version given or not
Limits == {"50"}

Pages == {"0"}

ItemNames == {"f"}

ItemVersions == {None, "1"}

CreateRequests == {"req"}

\* The arguments execute is called with
FeatureNames == {"f"}

\* num_samples is passed through untouched; a count is named by its text
SampleCounts == {"8"}

ExecRanges ==
    {NoRanges, Ranges(TRUE, <<>>), Ranges(TRUE, << <<1, 2>>, <<3, 4>> >>),
     Ranges(TRUE, << <<0 - 1, 10>> >>)}

NoCalls == [n \in OpNames |-> 0]

NoPkg == [n \in OpNames |-> Pending]

\* The credential pair and the handle as a public operation finds them
Snapshot ==
    [access |-> access, refresh |-> refresh, client |-> [client EXCEPT !.id = 0]]

\* The client as a public operation finds it
Begin ==
    [Cur EXCEPT !.client.id = 0, !.log = <<>>, !.nrefresh = 0, !.calls = NoCalls,
                !.pkg = NoPkg, !.result = Running, !.cpre = Snapshot,
                !.nonce_resp = Unassigned]


Becomes(m) ==
    /\ access' = m.access
    /\ refresh' = m.refresh
    /\ client' = m.client
    /\ stack' = m.stack
    /\ log' = m.log
    /\ nrefresh' = m.nrefresh
    /\ calls' = m.calls
    /\ pkg' = m.pkg
    /\ cpre' = m.cpre
    /\ result' = m.result
    /\ nonce_resp' = m.nonce_resp

\* Threads sharing one client
Threads == {"t1", "t2"}

Unread == "unread"

NotSeen == [access |-> Unread, token |-> Unread]

\* The arguments of a _set_tokens in progress, and the value of self._access
\* it has evaluated for the new handle
NoTokens == [access |-> None, refresh |-> None, token |-> Unread]

\* No thread is inside the client
NoThreads ==
    /\ serialized = FALSE
    /\ mutex = None
    /\ tpc = [t \in Threads |-> "idle"]
    /\ targ = [t \in Threads |-> NoTokens]
    /\ seen = [t \in Threads |-> NotSeen]
    /\ held = [t \in Threads |-> Unread]

\* DcnSDK.__init__
Init ==
    /\ access \in {None, "", "A"}
    /\ refresh \in {None, "", "R"}
    /\ auto_refresh \in BOOLEAN
    /\ client = GenClient(access, 0)
    /\ stack = <<>>
    /\ log = <<>>
    /\ nrefresh = 0
    /\ calls = NoCalls
    /\ pkg = NoPkg
    /\ op = OpDesc("init", None, None, None)
    /\ pre = Snapshot
    /\ cpre = Snapshot
    /\ result = NoResult
    /\ nonce_resp = Unassigned
    /\ revoked = FALSE
    /\ rcands = <<>>
    /\ renv = NoEnv
    /\ rres = Pending
    /\ ranges_in = <<>>
    /\ encoded = NotEncoded
    /\ base_arg = NotGiven
    /\ env_base = NotGiven
    /\ base_url = BaseOf(base_arg, env_base)
    /\ transport = None
    /\ NoThreads

\* DcnSDK.version
Version ==
    /\ Idle
    /\ op' = OpDesc("call", None, None, None)
    /\ pre' = Snapshot
    /\ \E m \in ResolveAndCall(Begin, VersionCands, NoArgs) : Becomes(m)
    /\ UNCHANGED <<auto_refresh, revoked, checkVars>>

\* DcnSDK.get_nonce called by the user
GetNonce ==
    /\ Idle
    /\ \E address \in Addresses :
        /\ op' = OpDesc("get_nonce", None, None, address)
        /\ \E m \in ResolveAndCall(Begin, NonceCands,
                                    NonceArgs(address)) : Becomes(m)
    /\ pre' = Snapshot
    /\ UNCHANGED <<auto_refresh, revoked, checkVars>>

\* DcnSDK.account_info
AccountInfo ==
    /\ Idle
    /\ \E address \in Addresses, limit \in Limits, page \in Pages :
        /\ op' = [OpDesc("account_info", None, None, address) EXCEPT
                        !.limit = limit, !.page = page]
        /\ \E m \in ResolveAndCall(Begin, AccountCands,
                                    AccountArgs(address, limit, page)) : Becomes(m)
    /\ pre' = Snapshot
    /\ UNCHANGED <<auto_refresh, revoked, checkVars>>

\* DcnSDK.feature_get
FeatureGet ==
    /\ Idle
    /\ \E name \in ItemNames, version \in ItemVersions :
        /\ op' = [OpDesc("feature_get", None, None, None) EXCEPT
                        !.name = name, !.version = version]
        /\ IF version = None
           THEN \E m \in ResolveAndCall(Begin, FeatureByNameCands,
                                        FeatureArgs(name, None)) : Becomes(m)
           ELSE \E m \in ResolveAndCall(Begin, FeatureByNameVersionCands,
                                        FeatureArgs(name, version)) : Becomes(m)
    /\ pre' = Snapshot
    /\ UNCHANGED <<auto_refresh, revoked, checkVars>>

\* DcnSDK.feature_post
FeaturePost ==
    /\ Idle
    /\ \E req \in CreateRequests :
        /\ op' = [OpDesc("feature_post", None, None, None) EXCEPT !.req = req]
        /\ \E m \in ResolveAndCall(Begin, FeaturePostCands, BodyArgs(req)) :
                Becomes(m)
    /\ pre' = Snapshot
    /\ UNCHANGED <<auto_refresh, revoked, checkVars>>

\* DcnSDK.transformation_get
TransformationGet ==
    /\ Idle
    /\ \E name \in ItemNames, version \in ItemVersions :
        /\ op' = [OpDesc("transformation_get", None, None, None) EXCEPT
                        !.name = name, !.version = version]
        /\ IF version = None
           THEN \E m \in ResolveAndCall(Begin, TransformationByNameCands,
                                        TransformationArgs(name, None)) :
                    Becomes(m)
           ELSE \E m \in ResolveAndCall(Begin, TransformationByNameVersionCands,
                                        TransformationArgs(name, version)) :
                    Becomes(m)
    /\ pre' = Snapshot
    /\ UNCHANGED <<auto_refresh, revoked, checkVars>>

\* DcnSDK.transformation_post
TransformationPost ==
    /\ Idle
    /\ \E req \in CreateRequests :
        /\ op' = [OpDesc("transformation_post", None, None, None) EXCEPT
                        !.req = req]
        /\ \E m \in ResolveAndCall(Begin, TransformationPostCands, BodyArgs(req)) :
                Becomes(m)
    /\ pre' = Snapshot
    /\ UNCHANGED <<auto_refresh, revoked, checkVars>>

\* DcnSDK.login_with_account, up to the nonce fetch
Login ==
    /\ Idle
    /\ \E address \in Addresses :
        /\ op' = OpDesc("login", None, None, address)
        /\ \E m \in ResolveAndCall(
                      [Begin EXCEPT !.stack = <<Frame("login", "nonce", <<>>, "",
                                                       NonceArgs(address))>>],
                      NonceCands, NonceArgs(address)) : Becomes(m)
    /\ pre' = Snapshot
    /\ UNCHANGED <<auto_refresh, revoked, checkVars>>

\* DcnSDK.refresh called by the user
RefreshOp ==
    /\ Idle
    /\ op' = OpDesc("refresh", None, None, None)
    /\ pre' = Snapshot
    /\ \E m \in Refresh(Begin) : Becomes(m)
    /\ UNCHANGED <<auto_refresh, revoked, checkVars>>

\* DcnSDK._set_tokens called by the user
SetTokensOp ==
    /\ Idle
    /\ \E a \in {None, "", "A", "B"}, r \in {None, "", "R", "S"} :
        /\ op' = OpDesc("set_tokens", a, r, None)
        /\ Becomes([SetTokens(Begin, a, r) EXCEPT !.result = Returned(NoPayload)])
        /\ revoked' = (a = None /\ r = "")
    /\ pre' = Snapshot
    /\ UNCHANGED <<auto_refresh, checkVars>>

\* DcnSDK.execute
Execute ==
    /\ Idle
    /\ \E feature_name \in FeatureNames, num_samples \in SampleCounts,
          ranges \in ExecRanges :
        /\ op' = [OpDesc("execute", None, None, None) EXCEPT
                        !.feature_name = feature_name,
                        !.num_samples = num_samples, !.ranges = ranges]
        /\ IF RangesTruthy(ranges)
           THEN \E m \in ResolveAndCall(Begin, WithPairsCands,
                                        ExecArgs(feature_name, num_samples,
                                                 EncodeRanges(ranges.val))) :
                    Becomes(m)
           ELSE \E m \in ResolveAndCall(Begin, NoPairsCands,
                                        ExecArgs(feature_name, num_samples, None)) :
                    Becomes(m)
    /\ pre' = Snapshot
    /\ UNCHANGED <<auto_refresh, revoked, checkVars>>

\* The answers the model follows: client.py puts no limit on refresh()
\* calls nested in one another, and the model leaves out the answers that
\* would nest one more than MaxDepth of them.
Followed(resp) ==
    RefreshDepth(stack) < MaxDepth \/ ~WantsRetry(Cur, Top(stack), resp)

\* The backend answers the invocation the dispatcher is making
Invoke ==
    /\ stack # <<>>
    /\ \E resp \in {r \in Responses(Top(stack).fn) : Followed(r)} :
        \E m \in Call(Cur, resp) : Becomes(m)
    /\ UNCHANGED <<auto_refresh, op, pre, revoked, checkVars>>

\* The public operation has ended and its caller takes what it returned or
\* raised; the histories of the operation end with it.
Collect ==
    /\ stack = <<>>
    /\ result.kind \in {"return", "raise"}
    /\ Becomes([Begin EXCEPT !.result = NoResult])
    /\ op' = OpDesc("idle", None, None, None)
    /\ pre' = Snapshot
    /\ revoked' = (op.kind = "set_tokens" /\ revoked)
    /\ UNCHANGED <<auto_refresh, checkVars>>

Next ==
    \/ Version
    \/ GetNonce
    \/ Login
    \/ RefreshOp
    \/ AccountInfo
    \/ FeatureGet
    \/ FeaturePost
    \/ TransformationGet
    \/ TransformationPost
    \/ SetTokensOp
    \/ Execute
    \/ Invoke
    \/ Collect

Spec == Init /\ [][Next]_vars

\* A client constructed with or without a transport, then the operations
\* that replace its handle
InitTransport ==
    /\ transport \in {None, "T"}
    /\ access \in {None, "", "A"}
    /\ refresh \in {None, "", "R"}
    /\ auto_refresh \in BOOLEAN
    /\ client \in Injected(GenClient(access, 0), transport)
    /\ stack = <<>>
    /\ log = <<>>
    /\ nrefresh = 0
    /\ calls = NoCalls
    /\ pkg = NoPkg
    /\ op = OpDesc("init", None, None, None)
    /\ pre = Snapshot
    /\ cpre = Snapshot
    /\ result = NoResult
    /\ nonce_resp = Unassigned
    /\ revoked = FALSE
    /\ rcands = <<>>
    /\ renv = NoEnv
    /\ rres = Pending
    /\ ranges_in = <<>>
    /\ encoded = NotEncoded
    /\ base_arg = NotGiven
    /\ env_base = NotGiven
    /\ base_url = BaseOf(base_arg, env_base)
    /\ NoThreads

NextTransport == SetTokensOp \/ RefreshOp \/ Invoke \/ Collect

SpecTransport == InitTransport /\ [][NextTransport]_vars

\* Two threads on one client.  Another thread may run between any two reads
\* or stores of self._access, self._client and self._refresh: _set_tokens
\* stores the access token, evaluates the arguments of the new handle, stores
\* the handle and stores the refresh token, and a caller reads access_token
\* and later makes a call, which reads self._client.  With serialized, the
\* callers take a mutex around every _set_tokens, every read of access_token
\* and every call.
InitThreads ==
    /\ access \in {None, "A"}
    /\ refresh \in {None, "R"}
    /\ auto_refresh = TRUE
    /\ client = GenClient(access, 0)
    /\ stack = <<>>
    /\ log = <<>>
    /\ nrefresh = 0
    /\ calls = NoCalls
    /\ pkg = NoPkg
    /\ op = OpDesc("init", None, None, None)
    /\ pre = Snapshot
    /\ cpre = Snapshot
    /\ result = NoResult
    /\ nonce_resp = Unassigned
    /\ revoked = FALSE
    /\ rcands = <<>>
    /\ renv = NoEnv
    /\ rres = Pending
    /\ ranges_in = <<>>
    /\ encoded = NotEncoded
    /\ base_arg = NotGiven
    /\ env_base = NotGiven
    /\ base_url = BaseOf(base_arg, env_base)
    /\ transport = None
    /\ serialized \in BOOLEAN
    /\ mutex = None
    /\ tpc = [t \in Threads |-> "idle"]
    /\ targ = [t \in Threads |-> NoTokens]
    /\ seen = [t \in Threads |-> NotSeen]
    /\ held = [t \in Threads |-> Unread]

\* What the steps of a thread leave alone
threadFrame ==
    <<auto_refresh, stack, log, nrefresh, calls, pkg, op, pre, cpre, result,
      nonce_resp, revoked, resolverVars, encoderVars, ctorVars, serialized>>

\* The callers' mutex is free, or the callers use none
MayEnter == serialized => mutex = None

\* A thread calls _set_tokens(access, refresh)
EnterSetTokens ==
    \E t \in Threads, a \in {None, "A", "B"}, r \in {None, "S"} :
        /\ tpc[t] = "idle"
        /\ MayEnter
        /\ client.id < MaxSets
        /\ mutex' = IF serialized THEN t ELSE mutex
        /\ targ' = [targ EXCEPT ![t] = [access |-> a, refresh |-> r,
                                       token |-> Unread]]
        /\ tpc' = [tpc EXCEPT ![t] = "store_access"]
        /\ UNCHANGED <<access, refresh, client, seen, held, threadFrame>>

\* if access: self._access = access
StoreAccessStep ==
    \E t \in Threads :
        /\ tpc[t] = "store_access"
        /\ IF Truthy(targ[t].access)
           THEN /\ access' = StoreAccess(Cur, targ[t].access).access
                /\ tpc' = [tpc EXCEPT ![t] = "read_access"]
           ELSE /\ access' = access
                /\ tpc' = [tpc EXCEPT ![t] = "store_refresh"]
        /\ UNCHANGED <<refresh, client, mutex, targ, seen, held, threadFrame>>

\* token=self._access: the arguments of _GenClient(...) are evaluated
ReadAccessStep ==
    \E t \in Threads :
        /\ tpc[t] = "read_access"
        /\ targ' = [targ EXCEPT ![t].token = access]
        /\ tpc' = [tpc EXCEPT ![t] = "store_client"]
        /\ UNCHANGED <<access, refresh, client, mutex, seen, held, threadFrame>>

\* self._client = <the handle built from the arguments evaluated>
StoreClientStep ==
    \E t \in Threads :
        /\ tpc[t] = "store_client"
        /\ client' = Rebuilt([Cur EXCEPT !.access = targ[t].token]).client
        /\ tpc' = [tpc EXCEPT ![t] = "store_refresh"]
        /\ UNCHANGED <<access, refresh, mutex, targ, seen, held, threadFrame>>

\* if refresh is not None: self._refresh = refresh; then _set_tokens returns
StoreRefreshStep ==
    \E t \in Threads :
        /\ tpc[t] = "store_refresh"
        /\ refresh' = IF targ[t].refresh # None
                      THEN StoreRefresh(Cur, targ[t].refresh).refresh
                      ELSE refresh
        /\ tpc' = [tpc EXCEPT ![t] = "idle"]
        /\ mutex' = IF serialized THEN None ELSE mutex
        /\ UNCHANGED <<access, client, targ, seen, held, threadFrame>>

\* A thread reads access_token
ObserveAccess ==
    \E t \in Threads :
        /\ tpc[t] = "idle"
        /\ MayEnter
        /\ seen' = [seen EXCEPT ![t] = [access |-> access, token |-> Unread]]
        /\ held' = [held EXCEPT ![t] = client.token]
        /\ tpc' = [tpc EXCEPT ![t] = "call"]
        /\ UNCHANGED <<access, refresh, client, mutex, targ, threadFrame>>

\* The thread then makes a call, which gives the endpoint the handle it
\* reads at that moment (client=self._client)
ObserveHandle ==
    \E t \in Threads :
        /\ tpc[t] = "call"
        /\ MayEnter
        /\ seen' = [seen EXCEPT ![t].token = client.token]
        /\ tpc' = [tpc EXCEPT ![t] = "idle"]
        /\ UNCHANGED <<access, refresh, client, mutex, targ, held, threadFrame>>

NextThreads ==
    \/ EnterSetTokens
    \/ StoreAccessStep
    \/ ReadAccessStep
    \/ StoreClientStep
    \/ StoreRefreshStep
    \/ ObserveAccess
    \/ ObserveHandle

SpecThreads == InitThreads /\ [][NextThreads]_vars

\* The resolver exercised alone on drawn inputs
InitResolve ==
    /\ RInit
    /\ ranges_in = <<>>
    /\ encoded = NotEncoded
    /\ base_arg = NotGiven
    /\ env_base = NotGiven
    /\ base_url = BaseOf(base_arg, env_base)
    /\ transport = None
    /\ NoThreads
    /\ access = None
    /\ refresh = None
    /\ auto_refresh = TRUE
    /\ client = GenClient(None, 0)
    /\ stack = <<>>
    /\ log = <<>>
    /\ nrefresh = 0
    /\ calls = NoCalls
    /\ pkg = NoPkg
    /\ op = OpDesc("init", None, None, None)
    /\ pre = Snapshot
    /\ cpre = Snapshot
    /\ result = NoResult
    /\ nonce_resp = Unassigned
    /\ revoked = FALSE

NextResolve == Resolve /\ UNCHANGED <<clientVars, encoderVars, ctorVars, threadVars>>

SpecResolve == InitResolve /\ [][NextResolve]_vars

\* A client on which no public operation runs
Untouched ==
    /\ access = None
    /\ refresh = None
    /\ auto_refresh = TRUE
    /\ client = GenClient(None, 0)
    /\ stack = <<>>
    /\ log = <<>>
    /\ nrefresh = 0
    /\ calls = NoCalls
    /\ pkg = NoPkg
    /\ op = OpDesc("init", None, None, None)
    /\ pre = Snapshot
    /\ cpre = Snapshot
    /\ result = NoResult
    /\ nonce_resp = Unassigned
    /\ revoked = FALSE

\* The encoder exercised alone on drawn inputs
InitEncode ==
    /\ EInit
    /\ Untouched
    /\ rcands = <<>>
    /\ renv = NoEnv
    /\ rres = Pending
    /\ base_arg = NotGiven
    /\ env_base = NotGiven
    /\ base_url = BaseOf(base_arg, env_base)
    /\ transport = None
    /\ NoThreads

NextEncode == Encode /\ UNCHANGED <<clientVars, resolverVars, ctorVars, threadVars>>

\* DcnSDK.__init__ as a step: the arguments and the environment are drawn,
\* then the handle is built
InitConstruct ==
    /\ base_arg \in OptUrls
    /\ env_base \in OptUrls
    /\ base_url = Unbuilt
    /\ transport = None
    /\ NoThreads
    /\ access \in {None, "", "A"}
    /\ refresh = None
    /\ auto_refresh = TRUE
    /\ client = GenClient(None, 0)
    /\ stack = <<>>
    /\ log = <<>>
    /\ nrefresh = 0
    /\ calls = NoCalls
    /\ pkg = NoPkg
    /\ op = OpDesc("unbuilt", None, None, None)
    /\ pre = Snapshot
    /\ cpre = Snapshot
    /\ result = NoResult
    /\ nonce_resp = Unassigned
    /\ revoked = FALSE
    /\ rcands = <<>>
    /\ renv = NoEnv
    /\ rres = Pending
    /\ ranges_in = <<>>
    /\ encoded = NotEncoded

Construct ==
    /\ base_url = Unbuilt
    /\ base_url' = BaseOf(base_arg, env_base)
    /\ client' = GenClient(access, 0)
    /\ op' = OpDesc("init", None, None, None)
    /\ UNCHANGED <<access, refresh, auto_refresh, stack, log, nrefresh, calls, pkg,
                   pre, cpre, result, nonce_resp, revoked, base_arg, env_base,
                   transport,
                   resolverVars, encoderVars, threadVars>>

NextConstruct == Construct

SpecConstruct == InitConstruct /\ [][NextConstruct]_vars

SpecEncode == InitEncode /\ [][NextEncode]_vars

-----------------------------------------------------------------------------
(* Properties.                                                             *)

\* The public operation has ended
Done == stack = <<>> /\ result.kind \in {"return", "raise"}

CredsNow == [access |-> access, refresh |-> refresh, client |-> client]

\* Invocations of the outermost dispatched call itself, and those made on
\* behalf of the refresh() it triggered
TargetIdx == {i \in 1..Len(log) : log[i].by = log[1].by}
NestedIdx == {i \in 1..Len(log) : log[i].by > log[1].by}

RefreshCapable ==
    /\ auto_refresh
    /\ Truthy(cpre.access)
    /\ Truthy(cpre.refresh)

\* C1: a dispatched call made with auto-refresh on and both tokens stored
\* enters refresh() at most once and invokes its target at most twice,
\* whatever the backend answers.
C1_AtMostOneRefresh ==
    (Len(log) >= 1 /\ RefreshCapable) =>
        (nrefresh <= 1 /\ Cardinality(TargetIdx) <= 2)

\* The answers the scenario of C2 fixes: the first is a 401, every later
\* one a success, and the refresh operation could be bound and called.
FirstUnauthorizedThenSuccess ==
    /\ op.kind = "call"
    /\ Done
    /\ RefreshCapable
    /\ Len(log) >= 1
    /\ log[1].resp.status = Unauthorized
    /\ \A i \in 2..Len(log) : IsSuccess(log[i].resp.status)
    /\ result.err.exc \notin {"ImportError", "AttributeError"}

\* C2: a call answered 401 then success, with the refresh endpoint
\* succeeding, makes exactly one refresh invocation between exactly two
\* target invocations with identical arguments, and its caller gets the
\* payload of the second.
C2_RetryOnce ==
    FirstUnauthorizedThenSuccess =>
        /\ Len(log) = 3
        /\ nrefresh = 1
        /\ log[2].by > log[1].by
        /\ OpOf(log[2].fn) = "post_refresh"
        /\ log[3].by = log[1].by
        /\ log[3].fn = log[1].fn
        /\ log[3].args = log[1].args
        /\ result = Returned(log[3].resp.parsed)

C2_Witness ==
    /\ FirstUnauthorizedThenSuccess
    /\ pkg["get_version"].conv = "plain"
    /\ pkg["post_refresh"].conv = "detailed"
    /\ result.val.val = "v1"

\* C3: without auto-refresh or without a refresh token a 401 fails the call
\* with that 401, with no refresh, one invocation, and the credential pair
\* and handle as they were.
C3_NoRefreshOn401 ==
    (/\ Len(log) >= 1
     /\ ~auto_refresh \/ ~Truthy(cpre.refresh)
     /\ log[1].resp.status = Unauthorized) =>
        /\ Len(log) = 1
        /\ nrefresh = 0
        /\ stack = <<>>
        /\ result.kind = "raise"
        /\ result.err.status = Unauthorized
        /\ result.err.body = log[1].resp.content
        /\ result.err.exc \in {"RuntimeError:HTTP", "HTTPStatusError"}
        /\ CredsNow = cpre

C3_Witness ==
    /\ Len(log) = 1
    /\ ~auto_refresh
    /\ Truthy(cpre.refresh)
    /\ Truthy(cpre.access)
    /\ log[1].resp.status = Unauthorized
    /\ result.err.exc = "HTTPStatusError"

\* C4: refresh() with the access token or the refresh token absent raises
\* its missing-tokens error, makes no backend invocation and changes
\* neither the credential pair nor the handle.
C4_RefreshNeedsTokens ==
    /\ (op.kind = "refresh" /\ (~Truthy(pre.access) \/ ~Truthy(pre.refresh))) =>
            /\ result = Raised(SimpleErr("RuntimeError:MissingTokens"))
            /\ stack = <<>>
            /\ calls = NoCalls
            /\ log = <<>>
            /\ CredsNow = pre
    /\ (result.err.exc = "RuntimeError:MissingTokens") =>
            /\ ~Truthy(access) \/ ~Truthy(refresh)
            /\ calls["post_refresh"] = 0
            /\ CredsNow = pre

C4_Witness ==
    /\ op.kind = "refresh"
    /\ Truthy(pre.access)
    /\ ~Truthy(pre.refresh)
    /\ result.err.exc = "RuntimeError:MissingTokens"

\* C5: the handle carries a token exactly when an access token is stored,
\* and then it is the stored one.
C5_HandleMatchesToken ==
    /\ (client.token # None) <=> (access # None)
    /\ client.token = access

C5_Witness ==
    /\ op.kind = "call"
    /\ pre.access = "A"
    /\ access = "B"
    /\ client.token = "B"
    /\ client.id > 0

\* C6: a client built without tokens has an anonymous handle; set_tokens
\* with a non-empty access token stores it and replaces the handle by one
\* carrying it; the refresh token becomes the one given, and stays what it
\* was when none is given.
C6_SetTokensFrame ==
    /\ (op.kind = "init" /\ access = None) => client.token = None
    /\ (op.kind = "set_tokens" /\ Truthy(op.a)) =>
            /\ access = op.a
            /\ client = GenClient(op.a, pre.client.id + 1)
            /\ refresh = IF op.r # None THEN op.r ELSE pre.refresh

C6_Witness ==
    /\ op.kind = "set_tokens"
    /\ op.a = "B"
    /\ op.r = None
    /\ pre.access = "A"
    /\ pre.refresh = "R"
    /\ client.token = "B"
    /\ refresh = "R"

\* The refresh answers before invocation k that made refresh() commit a
\* new access token
CommitsBefore(k) ==
    {i \in 2..(k - 1) :
        /\ IsSuccess(log[i].resp.status)
        /\ Truthy(Extract(log[i].resp.parsed, "access_token"))}

LastCommitBefore(k) ==
    CHOOSE i \in CommitsBefore(k) : \A j \in CommitsBefore(k) : j <= i

\* C7: a second invocation of the target comes last, after the first and
\* after the refresh invocations, and when the refresh committed a token
\* it is made with a new handle carrying that token.
C7_RetryOrder ==
    \A k \in 2..Len(log) :
        (log[k].by = log[1].by) =>
            /\ k >= 3
            /\ k = Len(log)
            /\ log[1].pc = "invoke1"
            /\ log[k].pc = "invoke2"
            /\ \A i \in 2..(k - 1) :
                    log[i].by > log[1].by /\ OpOf(log[i].fn) = "post_refresh"
            /\ (CommitsBefore(k) # {}) =>
                    /\ log[k].handle.token =
                         Extract(log[LastCommitBefore(k)].resp.parsed, "access_token")
                    /\ log[k].handle.id # log[1].handle.id

C7_Witness ==
    /\ Len(log) = 3
    /\ log[3].by = log[1].by
    /\ log[1].handle.token = "A"
    /\ log[3].handle.token = "B"

\* Whether the package holds something at a dotted path, and whether what
\* it holds can be called by the dispatcher
Locatable(d) ==
    /\ Len(d) > 1
    /\ SubSeq(d, 1, Len(d) - 1) \in renv.mods
    /\ renv.attr[d] # "absent"

Acceptable(d) == Locatable(d) /\ renv.attr[d] \in {"detailed", "plain", "both"}

LocatableIdx == {i \in 1..Len(rcands) : Locatable(rcands[i])}

AcceptableIdx == {i \in 1..Len(rcands) : Acceptable(rcands[i])}

Least(S) == CHOOSE i \in S : \A j \in S : i <= j

\* C8: the resolver returns what the first locatable candidate is bound to,
\* skipping the candidates before it that cannot be located, and fails only
\* when none can be located.
C8_FirstLocatable ==
    (rres # Pending) =>
        IF LocatableIdx = {}
        THEN ~rres.ok
        ELSE /\ rres.ok
             /\ rres.fn = rcands[Least(LocatableIdx)]
             /\ rres.conv = renv.attr[rcands[Least(LocatableIdx)]]

C8_Witness ==
    /\ rres.ok
    /\ Len(rcands) = 2
    /\ ~Locatable(rcands[1])
    /\ rres.fn = rcands[2]
    /\ rcands[1] # rcands[2]

\* The candidate list a public operation hands to the resolver itself
DirectRequest(cands) ==
    \/ op.kind = "call" /\ cands = VersionCands
    \/ op.kind = "refresh" /\ cands = RefreshCands
    \/ op.kind = "login" /\ cands \in {NonceCands, AuthCands}
    \/ op.kind = "execute" /\ cands \in {WithPairsCands, NoPairsCands}
    \/ op.kind = "get_nonce" /\ cands = NonceCands
    \/ op.kind = "account_info" /\ cands = AccountCands
    \/ op.kind = "feature_get"
            /\ cands \in {FeatureByNameCands, FeatureByNameVersionCands}
    \/ op.kind = "feature_post" /\ cands = FeaturePostCands
    \/ op.kind = "transformation_get"
            /\ cands \in {TransformationByNameCands,
                          TransformationByNameVersionCands}
    \/ op.kind = "transformation_post" /\ cands = TransformationPostCands

CarriesListAndLastFailure(err) ==
    /\ err.cands \in {VersionCands, NonceCands, AuthCands, RefreshCands,
                      WithPairsCands, NoPairsCands, AccountCands,
                      FeatureByNameCands, FeatureByNameVersionCands,
                      FeaturePostCands, TransformationByNameCands,
                      TransformationByNameVersionCands, TransformationPostCands}
    /\ err.cause.at = err.cands[Len(err.cands)]
    /\ err.cause.exc \in {"ModuleNotFoundError", "AttributeError"}

\* C9 as claimed: when no candidate resolves the error carries the whole
\* list and the lookup failure of the last candidate, and the public
\* operation that asked makes no backend invocation.
C9_NoInvocationAtAll ==
    (result.err.exc = "ImportError") =>
        /\ CarriesListAndLastFailure(result.err)
        /\ DirectRequest(result.err.cands) => calls = NoCalls

\* C9 as amended: the error carries the whole list and the lookup failure
\* of the last candidate; the unresolved operation is never invoked, and the
\* public operation that asked has made no backend invocation unless it is
\* the login failing to resolve post_auth, which has fetched its nonce.
C9_UnresolvedNeverInvoked ==
    (result.err.exc = "ImportError") =>
        /\ CarriesListAndLastFailure(result.err)
        /\ Done
        /\ calls[OpOf(result.err.cands[1])] = 0
        /\ (DirectRequest(result.err.cands) /\ result.err.cands # AuthCands) =>
                calls = NoCalls
        /\ (DirectRequest(result.err.cands) /\ result.err.cands = AuthCands) =>
                calls["get_nonce"] >= 1

C9_Witness ==
    /\ result.err.exc = "ImportError"
    /\ op.kind = "call"
    /\ result.err.cands = VersionCands
    /\ result.err.cause.exc = "AttributeError"
    /\ calls = NoCalls

\* C10: the resolver returns only an operation exposing a calling
\* convention: it returns what the first candidate that is located and
\* callable is bound to, and fails when there is none.
C10_OnlyCallable ==
    (rres # Pending) =>
        IF AcceptableIdx = {}
        THEN ~rres.ok
        ELSE /\ rres.ok
             /\ rres.fn = rcands[Least(AcceptableIdx)]
             /\ rres.conv \in {"detailed", "plain", "both"}

\* The response the dispatcher judges at client.py:129: the answer to the
\* last invocation of the target, unless that answer is a first 401 that
\* sends the dispatcher into refresh()
FinalJudged ==
    /\ Len(log) >= 1
    /\ log[Len(log)].by = log[1].by
    /\ \/ log[Len(log)].pc = "invoke2"
       \/ ~(auto_refresh /\ log[Len(log)].resp.status = Unauthorized
                /\ Truthy(cpre.refresh))

DetailedCall == op.kind = "call" /\ pkg["get_version"].conv = "detailed"

\* C11: a detailed-convention call returns the parsed payload, absent or
\* not, exactly when the status of its final response is in 200..299, and
\* otherwise raises the HTTP error carrying that status and the raw body.
C11_DetailedOutcome ==
    (DetailedCall /\ FinalJudged) =>
        LET last == log[Len(log)].resp IN
        /\ Done
        /\ (200 <= last.status /\ last.status <= 299) =>
                result = Returned(last.parsed)
        /\ ~(200 <= last.status /\ last.status <= 299) =>
                result = Raised(Err("RuntimeError:HTTP", last.status, last.content,
                                   <<>>, NoExc))
        /\ (result.kind = "return") <=> (200 <= last.status /\ last.status <= 299)

C11_Witness ==
    /\ DetailedCall
    /\ FinalJudged
    /\ log[Len(log)].resp.status = 299
    /\ log[Len(log)].pc = "invoke2"
    /\ result = Returned(NoPayload)

\* C12: every submission to the login endpoint comes after the nonce fetch
\* and carries the address, the message "Login nonce: <fetched nonce>" and
\* the signer's output for that message; a login that returns a response
\* carrying access token A and refresh token R leaves A and R stored and the
\* handle carrying A.
C12_LoginSequence ==
    (op.kind = "login") =>
        /\ \A i \in 1..Len(log) :
              (OpOf(log[i].fn) = "post_auth") =>
                /\ nonce_resp # Unassigned
                /\ calls["get_nonce"] >= 1
                /\ LET message == "Login nonce: " \o Extract(nonce_resp, "nonce") IN
                   log[i].args = AuthArgs(op.address, message,
                                          Sign(op.address, message))
        /\ (Done /\ result.kind = "return") =>
              /\ calls["post_auth"] >= 1
              /\ (/\ Truthy(Extract(result.val, "access_token"))
                  /\ Truthy(Extract(result.val, "refresh_token"))) =>
                    /\ access = Extract(result.val, "access_token")
                    /\ refresh = Extract(result.val, "refresh_token")
                    /\ client.token = Extract(result.val, "access_token")

C12_Witness ==
    /\ op.kind = "login"
    /\ Done
    /\ result.kind = "return"
    /\ pre.access = None
    /\ pre.refresh = None
    /\ nonce_resp.nonce = "n2"
    /\ log[1].args.json_body.message = "Login nonce: n2"
    /\ access = "A"
    /\ refresh = "S"
    /\ client.token = "A"

\* The nonce fetch has returned to the login a response without a usable
\* nonce
NonceMissing ==
    /\ op.kind = "login"
    /\ nonce_resp # Unassigned
    /\ ~Truthy(Extract(nonce_resp, "nonce"))

\* C13 as claimed: a nonce response without a nonce fails the login before
\* the signer and the login endpoint are reached, and the credential pair
\* and the handle are as they were when the login started.
C13_NoNonceNothingChanged ==
    NonceMissing =>
        /\ Done
        /\ result = Raised(SimpleErr("RuntimeError:MissingNonce"))
        /\ pkg["post_auth"] = Pending
        /\ calls["post_auth"] = 0
        /\ CredsNow = pre

\* C13 as amended: the same failure, with the credential pair and the handle
\* as they were unless the nonce fetch was answered 401 and refreshed the
\* access token on its way; the refresh token is as it was in every case.
C13_NoNonceNoLoginEffect ==
    NonceMissing =>
        /\ Done
        /\ result = Raised(SimpleErr("RuntimeError:MissingNonce"))
        /\ pkg["post_auth"] = Pending
        /\ calls["post_auth"] = 0
        /\ refresh = pre.refresh
        /\ (calls["post_refresh"] = 0) => CredsNow = pre

C13_Witness ==
    /\ NonceMissing
    /\ nonce_resp.shape = "dict"
    /\ Truthy(pre.access)
    /\ calls["post_refresh"] = 0
    /\ result.err.exc = "RuntimeError:MissingNonce"

\* C14: a login whose login-endpoint response carries neither token raises
\* instead of returning, and leaves the credential pair and the handle as
\* they were.
C14_LoginNeedsTokens ==
    (/\ op.kind = "login"
     /\ Done
     /\ calls["post_auth"] >= 1
     /\ FinalJudged
     /\ IsSuccess(log[Len(log)].resp.status)
     /\ ~Truthy(Extract(log[Len(log)].resp.parsed, "access_token"))
     /\ ~Truthy(Extract(log[Len(log)].resp.parsed, "refresh_token"))) =>
        /\ result.kind = "raise"
        /\ CredsNow = cpre

\* A refresh() called by the user has returned
RefreshReturned == op.kind = "refresh" /\ Done /\ result.kind = "return"

\* C15: after a refresh() that returns a response carrying a non-empty
\* access token and no refresh token, the stored access token and the
\* handle's token are the new access token and the stored refresh token is
\* the one stored before the call.
C15_RefreshCommitsAccess ==
    (/\ RefreshReturned
     /\ Truthy(Extract(result.val, "access_token"))
     /\ Extract(result.val, "refresh_token") = None) =>
        /\ access = Extract(result.val, "access_token")
        /\ client.token = Extract(result.val, "access_token")
        /\ refresh = pre.refresh

C15_Witness ==
    /\ RefreshReturned
    /\ pre.access = "A"
    /\ pre.refresh = "R"
    /\ Extract(result.val, "refresh_token") = None
    /\ access = "B"
    /\ client.token = "B"
    /\ refresh = "R"

\* C16: after a refresh() that returns a response supplying a refresh
\* token, the stored refresh token is the supplied one.
C16_RefreshAdoptsSupplied ==
    (/\ RefreshReturned
     /\ Truthy(Extract(result.val, "refresh_token"))) =>
        refresh = Extract(result.val, "refresh_token")

\* The rendering of one pair and of a list of pairs, built from the back
PairText(p) == "(" \o ToString(p[1]) \o ";" \o ToString(p[2]) \o ")"

RECURSIVE Concatenation(_)
Concatenation(ranges) ==
    IF ranges = <<>> THEN ""
    ELSE Concatenation(SubSeq(ranges, 1, Len(ranges) - 1))
         \o PairText(ranges[Len(ranges)])

\* C17: the encoder returns the in-order concatenation of the "(start;shift)"
\* renderings of the pairs, negative integers included, with nothing between
\* or around them: "" for no pairs and "(1;2)(3;4)" for [(1,2),(3,4)].
C17_BareConcatenation ==
    (encoded # NotEncoded) =>
        /\ encoded = Concatenation(ranges_in)
        /\ (ranges_in = <<>>) => encoded = ""
        /\ (ranges_in = << <<1, 2>>, <<3, 4>> >>) => encoded = "(1;2)(3;4)"
        /\ (ranges_in = << <<0 - 12, 10>> >>) => encoded = "(-12;10)"

C17_Witness ==
    /\ ranges_in = << <<0 - 1, 2>>, <<10, 0 - 12>> >>
    /\ encoded = "(-1;2)(10;-12)"

\* The invocations of the with-pairs operation
WithPairsIdx == {i \in 1..Len(log) : OpOf(log[i].fn) = "get_with_pairs"}

NoPairsIdx == {i \in 1..Len(log) : OpOf(log[i].fn) = "get_no_pairs"}

\* C18 as claimed: the encoder wraps the renderings in square brackets,
\* "[(1;2)(3;4)]" for [(1,2),(3,4)] and "[]" for no pairs, and execute passes
\* the bracketed string as pairs.
C18_BracketedPairs ==
    /\ EncodeRanges(<< <<1, 2>>, <<3, 4>> >>) = "[(1;2)(3;4)]"
    /\ EncodeRanges(<<>>) = "[]"
    /\ (op.kind = "execute") =>
            \A i \in WithPairsIdx :
                log[i].args.pairs = "[" \o Concatenation(op.ranges.val) \o "]"

\* What the encoder does instead: it adds no brackets, "(1;2)(3;4)" for
\* [(1,2),(3,4)] and "" for no pairs, and execute passes the bare
\* concatenation as pairs.
C18_BarePairs ==
    /\ EncodeRanges(<< <<1, 2>>, <<3, 4>> >>) = "(1;2)(3;4)"
    /\ EncodeRanges(<<>>) = ""
    /\ (op.kind = "execute") =>
            \A i \in WithPairsIdx :
                /\ log[i].args.pairs = Concatenation(op.ranges.val)
                /\ (op.ranges.val = << <<1, 2>>, <<3, 4>> >>) =>
                        log[i].args.pairs = "(1;2)(3;4)"

C18_Witness ==
    /\ op.kind = "execute"
    /\ op.ranges.val = << <<1, 2>>, <<3, 4>> >>
    /\ Done
    /\ result.kind = "return"
    /\ WithPairsIdx # {}
    /\ log[1].args.pairs = "(1;2)(3;4)"

\* The execute in progress was given a list holding at least one pair
NonEmptyRanges == op.ranges.given /\ Len(op.ranges.val) >= 1

\* C19: execute without ranges or with an empty list invokes only the
\* no-pairs operation, with feature_name and num_samples and no pairs;
\* execute with a non-empty list invokes only the with-pairs operation, with
\* pairs the encoding of the list; it never reaches both operations and
\* never passes the encoding of an empty list.
C19_ExecuteDispatch ==
    (op.kind = "execute") =>
        /\ \A i \in TargetIdx : OpOf(log[i].fn) \in {"get_with_pairs", "get_no_pairs"}
        /\ ~NonEmptyRanges =>
              /\ pkg["get_with_pairs"] = Pending
              /\ calls["get_with_pairs"] = 0
              /\ WithPairsIdx = {}
              /\ \A i \in NoPairsIdx :
                    log[i].args = ExecArgs(op.feature_name, op.num_samples, None)
        /\ NonEmptyRanges =>
              /\ pkg["get_no_pairs"] = Pending
              /\ calls["get_no_pairs"] = 0
              /\ NoPairsIdx = {}
              /\ \A i \in WithPairsIdx :
                    log[i].args = ExecArgs(op.feature_name, op.num_samples,
                                           EncodeRanges(op.ranges.val))
        /\ ~(calls["get_with_pairs"] = 1 /\ calls["get_no_pairs"] = 1)
        /\ \A i \in 1..Len(log) : log[i].args.pairs # EncodeRanges(<<>>)

C19_Witness ==
    /\ op.kind = "execute"
    /\ op.ranges = Ranges(TRUE, <<>>)
    /\ Done
    /\ result.kind = "return"
    /\ calls["get_no_pairs"] = 1
    /\ log[Len(log)].args.pairs = None

\* The string the construction takes the base URL from: the argument when
\* one is given, else the environment variable when set, else the default
\* (an empty string counts as not given)
BaseSource ==
    IF base_arg.given /\ Len(base_arg.val) > 0 THEN base_arg.val
    ELSE IF env_base.given /\ Len(env_base.val) > 0 THEN env_base.val
    ELSE <<"https://api.decentralised.art">>

\* C20: the base URL of the handle built at construction is the argument if
\* given, else the environment override if set, else
\* https://api.decentralised.art, cut before its trailing slashes.
C20_BaseUrlOrder ==
    (base_url # Unbuilt) =>
        /\ Len(base_url) <= Len(BaseSource)
        /\ base_url = SubSeq(BaseSource, 1, Len(base_url))
        /\ \A i \in (Len(base_url) + 1)..Len(BaseSource) : BaseSource[i] = "/"
        /\ (base_url # <<>>) => base_url[Len(base_url)] # "/"
        /\ (~base_arg.given /\ ~env_base.given) =>
                base_url = <<"https://api.decentralised.art">>

C20_Witness ==
    /\ op.kind = "init"
    /\ ~base_arg.given
    /\ env_base = Opt(TRUE, <<"https://b.example", "/", "v1", "/">>)
    /\ base_url = <<"https://b.example", "/", "v1">>
    /\ client.token = "A"

\* The dispatcher stands where it stood one refresh() earlier: the frame on
\* top is an invocation of post_refresh about to be answered for the first
\* time; it was made by a refresh() that the same invocation, with the same
\* function, convention and arguments, set off one nesting below when it was
\* answered 401; every answer of the refresh endpoint so far was 401, and
\* the tokens the dispatcher reads are those the call started with.  The
\* answer 401 takes it from here to the same place one refresh() deeper.
Recurring ==
    /\ Len(stack) >= 3
    /\ LET n == Len(stack) IN
        /\ stack[n].kind = "_call"
        /\ stack[n].pc = "invoke1"
        /\ OpOf(stack[n].fn) = "post_refresh"
        /\ stack[n - 1].kind = "refresh"
        /\ stack[n - 2].kind = "_call"
        /\ stack[n - 2].pc = "refreshing"
        /\ stack[n - 2].fn = stack[n].fn
        /\ stack[n - 2].conv = stack[n].conv
        /\ stack[n - 2].args = stack[n].args
    /\ \A i \in 1..Len(log) :
          (OpOf(log[i].fn) = "post_refresh") => log[i].resp.status = Unauthorized
    /\ CredsNow = cpre
    /\ WantsRetry(Cur, Top(stack), Response(Unauthorized, NoPayload, "unauthorized"))

FailureOf(entry) ==
    Err(IF pkg[OpOf(entry.fn)].conv = "plain" THEN "HTTPStatusError"
        ELSE "RuntimeError:HTTP",
        entry.resp.status, entry.resp.content, <<>>, NoExc)

\* C22: the answer to a second invocation decides the call: nothing is
\* invoked and no refresh is entered after the second invocation of the
\* target; a non-success answer to it, 401 included, ends the operation with
\* the HTTP error of that status (detailed) or the raised failure itself
\* (plain), and a success answer is what the call returns.
C22_SecondInvocationDecides ==
    \A k \in 1..Len(log) :
        (log[k].pc = "invoke2") =>
            /\ ~(200 <= log[k].resp.status /\ log[k].resp.status <= 299) =>
                    /\ k = Len(log)
                    /\ Done
                    /\ result = Raised(FailureOf(log[k]))
            /\ (log[k].by = log[1].by) =>
                    /\ k = Len(log)
                    /\ Done
                    /\ nrefresh = Cardinality({i \in 1..(k - 1) : log[i].pc = "invoke1"
                                                   /\ log[i].resp.status = Unauthorized})
                    /\ (/\ 200 <= log[k].resp.status /\ log[k].resp.status <= 299
                        /\ op.kind \in {"call", "execute"}) =>
                            result = Returned(log[k].resp.parsed)

C22_Witness ==
    /\ op.kind = "call"
    /\ Len(log) = 3
    /\ log[3].by = log[1].by
    /\ log[3].pc = "invoke2"
    /\ log[3].resp.status = Unauthorized
    /\ pkg["get_version"].conv = "plain"
    /\ result.err.exc = "HTTPStatusError"
    /\ result.err.status = Unauthorized
    /\ nrefresh = 1

\* The first answer of the call in progress was a 401 that sent the
\* dispatcher into refresh()
RefreshTriggered ==
    /\ Len(log) >= 1
    /\ log[1].pc = "invoke1"
    /\ log[1].resp.status = Unauthorized
    /\ auto_refresh
    /\ Truthy(cpre.refresh)

SecondTargetIdx == {i \in 2..Len(log) : log[i].by = log[1].by}

\* The answers of the refresh endpoint to the refresh() the 401 triggered
\* (not to the refreshes nested in it) that were not a success
RefreshRefused ==
    {i \in 2..Len(log) :
        /\ log[i].by = log[2].by
        /\ log[2].by > log[1].by
        /\ ~(200 <= log[i].resp.status /\ log[i].resp.status <= 299)}

\* C23: when the refresh a 401 triggered fails, because no access token is
\* stored, or the refresh operation cannot be resolved, or the refresh
\* endpoint answers with a non-success status, the target is not invoked a
\* second time and the operation ends raising the failure of the refresh.
C23_RefreshFailureEndsCall ==
    RefreshTriggered =>
        /\ ~Truthy(cpre.access) =>
                /\ Done
                /\ Len(log) = 1
                /\ result = Raised(SimpleErr("RuntimeError:MissingTokens"))
        /\ (pkg["post_refresh"] # Pending /\ ~pkg["post_refresh"].ok) =>
                /\ Done
                /\ Len(log) = 1
                /\ result.err.exc = "ImportError"
                /\ result.err.cands = RefreshCands
        /\ (RefreshRefused # {}) =>
                /\ SecondTargetIdx = {}
                /\ Done => result.kind = "raise"

\* What does hold of a failed refresh: an operation that ended on an answer
\* to a refresh invocation ended raising the error of that answer, without a
\* second invocation of the target.
RefreshFailurePropagates ==
    (RefreshTriggered /\ Done /\ log[Len(log)].by > log[1].by) =>
        /\ OpOf(log[Len(log)].fn) = "post_refresh"
        /\ SecondTargetIdx = {}
        /\ result.kind = "raise"
        /\ result.err = FailureOf(log[Len(log)])

\* C24: set_tokens with an absent or empty access token leaves the access
\* token and the handle as they were and stores a given refresh token as
\* it is, the empty string included; in the operation that follows
\* set_tokens(None, "") a first answer of 401 is not retried: no refresh, no
\* second invocation, the 401 raised.
C24_EmptyRefreshStopsRetry ==
    /\ (op.kind = "set_tokens" /\ ~Truthy(op.a)) =>
            /\ access = pre.access
            /\ client = pre.client
            /\ refresh = IF op.r # None THEN op.r ELSE pre.refresh
    /\ (op.kind = "set_tokens" /\ op.a = None /\ op.r = "") =>
            revoked /\ refresh = ""
    /\ (/\ revoked
        /\ op.kind \notin {"set_tokens", "idle"}
        /\ Len(log) >= 1
        /\ log[1].resp.status = Unauthorized) =>
            /\ Len(log) = 1
            /\ nrefresh = 0
            /\ Done
            /\ result.kind = "raise"
            /\ result.err.status = Unauthorized

C24_Witness ==
    /\ revoked
    /\ op.kind = "call"
    /\ auto_refresh
    /\ pre.access = "A"
    /\ pre.refresh = ""
    /\ Len(log) = 1
    /\ log[1].resp.status = Unauthorized
    /\ result.err.status = Unauthorized

\* C25: a login that ends raising, at whichever step, without the refresh
\* endpoint having been invoked during it, leaves the access token, the
\* refresh token and the handle as they were when it started.
C25_FailedLoginChangesNothing ==
    (/\ op.kind = "login"
     /\ Done
     /\ result.kind = "raise"
     /\ calls["post_refresh"] = 0) =>
        CredsNow = pre

C25_Witness ==
    /\ op.kind = "login"
    /\ Done
    /\ result.err.exc = "RuntimeError:HTTP"
    /\ result.err.status = 500
    /\ calls["post_auth"] = 1
    /\ calls["post_refresh"] = 0
    /\ pre.access = "A"
    /\ pre.refresh = "R"
    /\ CredsNow = pre

\* The submissions to the login endpoint, and the nonces handed out, in the
\* dispatched call in progress
SubmissionIdx == {i \in 1..Len(log) : OpOf(log[i].fn) = "post_auth"}

NonceIdx ==
    {i \in 1..Len(log) :
        /\ OpOf(log[i].fn) = "get_nonce"
        /\ 200 <= log[i].resp.status /\ log[i].resp.status <= 299}

\* C26: within one login one nonce at most is handed out, and the message
\* built from it is submitted to the login endpoint at most once, whatever
\* the login endpoint answers.
C26_NonceSubmittedOnce ==
    (op.kind = "login") =>
        /\ Cardinality(NonceIdx) <= 1
        /\ Cardinality(SubmissionIdx) <= 1

\* C27: the handle of a client constructed with a transport carries that
\* transport, after construction and after every replacement of the handle.
C27_TransportKept == (transport # None) => client.transport = transport

\* A thread read a stored access token that the handle did not carry at
\* that moment
TornRead(t) == held[t] # Unread /\ seen[t].access # held[t]

\* C28: a thread reads the stored access token while the handle carries
\* another token only when the callers use no mutex; with the mutex, the
\* handle carries the stored access token at every read of access_token and
\* whenever the mutex is free.
C28_TornOnlyUnserialized ==
    /\ \A t \in Threads : TornRead(t) => ~serialized
    /\ (serialized /\ mutex = None) => client.token = access

\* Without the mutex, a thread read the new access token another thread had
\* stored while the handle still carried the previous token, and its call
\* was given that handle.
C28_Witness ==
    /\ ~serialized
    /\ \E t \in Threads : \E u \in Threads \ {t} :
        /\ tpc[u] \in {"read_access", "store_client"}
        /\ tpc[t] = "idle"
        /\ seen[t].access = targ[u].access
        /\ held[t] # targ[u].access
        /\ seen[t].token = held[t]
        /\ access = seen[t].access
        /\ client.token = held[t]

\* With the mutex, a thread read the client after another thread's
\* _set_tokens had replaced the handle.
SerializedRead ==
    /\ serialized
    /\ client.id > 0
    /\ \E t \in Threads : seen[t] = [access |-> "B", token |-> "B"] /\ held[t] = "B"

\* Without the mutex, both _set_tokens have returned and the handle carries
\* a token that is not the stored one.
StaleHandleAtRest ==
    /\ ~serialized
    /\ \A t \in Threads : tpc[t] = "idle"
    /\ access = "B"
    /\ client.token = "A"

\* With the mutex around each read, a thread read an access token and was
\* then given a handle built by a later _set_tokens.
LaterHandle ==
    /\ serialized
    /\ \E t \in Threads : seen[t] = [access |-> "A", token |-> "B"]

====
